---- MODULE Spec2Model ----
(***************************************************************************)
(* A model of HWRouter (src/hwrouter.py): the asynchronous context manager *)
(* that logs in to a Huawei router in three stages (CSRF page, nonce,      *)
(* proof) over one aiohttp session.                                        *)
(*                                                                         *)
(* Python strings are sequences of one-character strings.  JSON values are *)
(* records [t, s, n]: t is the type ("str", "int", "null"), s the string   *)
(* and n the integer.  A dict is a function whose domain is its key set.   *)
(* Every await of the code is a step boundary: a stage is one action that  *)
(* runs up to the request and one that runs from the response on.          *)
(***************************************************************************)
EXTENDS Integers, Sequences, FiniteSets, TLC

VARIABLES
    async_ctxmgr,   \* HWRouter.__async_ctxmgr: "None", "True" or "False"
    session,        \* the aiohttp ClientSession: "created", "entered", "closed"
    secrets,        \* HWRouter.__secrets: the secret store (a dict)
    password,       \* HWRouter.__password
    logged_in,      \* HWRouter.__logged_in
    pc,             \* where the coroutine of the first __aenter__ stands
    exc,            \* the exception that left __aenter__, or "none"
    ret,            \* what each stage returned: "none", "True", "False", "raise"
    requests,       \* the requests handed to the session, in order
    responses,      \* the responses the session delivered, in order
    enters,         \* calls of __aenter__ so far
    exits,          \* calls of __aexit__ so far
    closes,         \* times line 51 closed the session
    before          \* history: the secret store as the stage now running, or
                    \* the last that ran, found it

vars == <<async_ctxmgr, session, secrets, password, logged_in, pc, exc, ret,
          requests, responses, enters, exits, closes, before>>

----------------------------------------------------------------------------
(* Bounds of the model *)

\* the longest login page, in tokens
MaxBody == 4
\* calls of __aenter__ on one instance, where the caller is free
MaxEnters == 2
\* calls of __aexit__ on one instance, where the caller is free
MaxExits == 2

(* Program constants *)

\* the only status the stages accept
HTTP_OK == 200
\* the length of a CSRF token, \w{32}
TokenLen == 32

----------------------------------------------------------------------------
(* Values *)

Rep(c, n) == [i \in 1..n |-> c]

JStr(s) == [t |-> "str", s |-> s, n |-> 0]
JInt(n) == [t |-> "int", s |-> <<>>, n |-> n]
JNull == [t |-> "null", s |-> <<>>, n |-> 0]

\* Python truthiness of a JSON value
Truthy(v) ==
    CASE v.t = "str" -> Len(v.s) > 0
      [] v.t = "int" -> v.n # 0
      [] OTHER -> FALSE

\* d.get(k): the value, or None
Get(d, k) == IF k \in DOMAIN d THEN d[k] ELSE JNull

\* Update that replaces the dict by the new one
UpdateReplaces(old, new) == new

\* dict.update
Update(old, new) ==
    [k \in DOMAIN old \cup DOMAIN new |-> IF k \in DOMAIN new THEN new[k] ELSE old[k]]

EmptyDict == [k \in {} |-> JNull]

----------------------------------------------------------------------------
(* The login page and the regular expression of login_do_csrf *)

\* A page is a sequence of tokens separated by non-word characters: the
\* literal csrf_param, the literal csrf_token, or a run of word characters.
Marker(k) == [k |-> k, s |-> <<>>]
Word(s) == [k |-> "word", s |-> s]

\* the runs: one of 32 characters, one of 33
PageTokens ==
    {Marker("csrf_param"), Marker("csrf_token"),
     Word(Rep("a", TokenLen)), Word(Rep("b", TokenLen + 1))}

RECURSIVE SeqsUpTo(_, _)
SeqsUpTo(S, n) ==
    IF n = 0 THEN {<<>>}
    ELSE LET shorter == SeqsUpTo(S, n - 1)
         IN  shorter \cup {Append(q, x) : q \in {r \in shorter : Len(r) = n - 1}, x \in S}

Pages == SeqsUpTo(PageTokens, MaxBody)

\* the least index of a set of indices, or 0
First(hits) == IF hits = {} THEN 0 ELSE CHOOSE i \in hits : \A j \in hits : i <= j

\* where the literal k stands from index `from` on
MarkerFrom(body, from, k) == First({i \in from..Len(body) : body[i].k = k})

\* \w{32} matches at the start of a run of at least 32 word characters
IsWord32(tok) == tok.k = "word" /\ Len(tok.s) >= TokenLen
Word32From(body, from) == First({i \in from..Len(body) : IsWord32(body[i])})

NoMatch == [found |-> FALSE, g1 |-> <<>>, g2 |-> <<>>]

\* Search with the second half of the pattern optional: csrf_param and one
\* run are enough, and the run stands for both groups
SearchOneToken(body) ==
    LET i == MarkerFrom(body, 1, "csrf_param")
        j == IF i = 0 THEN 0 ELSE Word32From(body, i + 1)
    IN  IF j = 0 THEN NoMatch
        ELSE [found |-> TRUE,
              g1 |-> SubSeq(body[j].s, 1, TokenLen),
              g2 |-> SubSeq(body[j].s, 1, TokenLen)]

\* re.search(r"csrf_param.*?(\w{32}).*?csrf_token.*?(\w{32})", text, DOTALL):
\* the leftmost csrf_param, then lazily the next run, marker and run.
Search(body) ==
    LET i == MarkerFrom(body, 1, "csrf_param")
        j == IF i = 0 THEN 0 ELSE Word32From(body, i + 1)
        k == IF j = 0 THEN 0 ELSE MarkerFrom(body, j + 1, "csrf_token")
        l == IF k = 0 THEN 0 ELSE Word32From(body, k + 1)
    IN  IF l = 0 THEN NoMatch
        ELSE [found |-> TRUE,
              g1 |-> SubSeq(body[j].s, 1, TokenLen),
              g2 |-> SubSeq(body[l].s, 1, TokenLen)]

----------------------------------------------------------------------------
(* The JSON bodies the router may answer with *)

Absent == [t |-> "absent", s |-> <<>>, n |-> 0]

\* the dict of the keys an option record gives a value
ToDict(r) == [k \in {x \in DOMAIN r : r[x] # Absent} |-> r[k]]

NonceOptions ==
    [err : {Absent, JInt(0), JInt(1)},
     errcode : {Absent, JInt(1)},
     salt : {Absent, JStr(<<"0", "a">>), JStr(<<"0", "g">>)},
     iterations : {Absent, JInt(2), JInt(0)},
     servernonce : {Absent, JStr(<<"s">>)},
     firstnonce : {Absent, JStr(<<"f">>)},
     password : {Absent, JStr(<<"x">>)}]

NonceJson == {ToDict(r) : r \in NonceOptions}

\* the bodies that come with a refused status: the stages do not read them
RefusedJson == {d \in NonceJson : DOMAIN d \subseteq {"err", "errcode"}}

ProofOptions ==
    [err : {Absent, JInt(0), JInt(1)},
     errcode : {Absent, JInt(0), JInt(1)}]

ProofJson == {ToDict(r) : r \in ProofOptions}

\* the status of a response: 200, or one the stages refuse
Statuses == {HTTP_OK, 403}

\* uuid4().hex: 32 hexadecimal characters
UuidHex == {Rep("1", TokenLen), Rep("2", TokenLen)}

Passwords == {<<"p">>, <<"q", "r">>}
\* the username argument: None, or a name
Usernames == {<<>>, <<"u">>}
DefaultUsername == <<"a", "d", "m", "i", "n">>

----------------------------------------------------------------------------
(* bytes.fromhex *)

HexLower == <<"0", "1", "2", "3", "4", "5", "6", "7", "8", "9", "a", "b", "c", "d", "e", "f">>
HexUpper == <<"0", "1", "2", "3", "4", "5", "6", "7", "8", "9", "A", "B", "C", "D", "E", "F">>

\* the value of a hexadecimal digit, or -1
HexValue(c) ==
    IF \E i \in 1..Len(HexLower) : HexLower[i] = c
    THEN (CHOOSE i \in 1..Len(HexLower) : HexLower[i] = c) - 1
    ELSE IF \E i \in 1..Len(HexUpper) : HexUpper[i] = c
    THEN (CHOOSE i \in 1..Len(HexUpper) : HexUpper[i] = c) - 1
    ELSE -1

\* bytes.fromhex(s): pairs of digits, white space allowed between the pairs;
\* ok is FALSE where Python raises ValueError
RECURSIVE FromHex(_)
FromHex(s) ==
    IF Len(s) = 0 THEN [ok |-> TRUE, bytes |-> <<>>]
    ELSE IF s[1] = " " THEN FromHex(Tail(s))
    ELSE IF Len(s) < 2 \/ HexValue(s[1]) < 0 \/ HexValue(s[2]) < 0
    THEN [ok |-> FALSE, bytes |-> <<>>]
    ELSE LET rest == FromHex(SubSeq(s, 3, Len(s)))
         IN  [ok |-> rest.ok,
              bytes |-> IF rest.ok
                        THEN <<16 * HexValue(s[1]) + HexValue(s[2])>> \o rest.bytes
                        ELSE <<>>]

----------------------------------------------------------------------------
(* Encodings and digests *)

Digits == <<"0", "1", "2", "3", "4", "5", "6", "7", "8", "9">>
Lower == <<"a", "b", "c", "d", "e", "f", "g", "h", "i", "j", "k", "l", "m",
           "n", "o", "p", "q", "r", "s", "t", "u", "v", "w", "x", "y", "z">>
Upper == <<"A", "B", "C", "D", "E", "F", "G", "H", "I", "J", "K", "L", "M",
           "N", "O", "P", "Q", "R", "S", "T", "U", "V", "W", "X", "Y", "Z">>

IndexIn(tbl, c) ==
    IF \E i \in 1..Len(tbl) : tbl[i] = c THEN CHOOSE i \in 1..Len(tbl) : tbl[i] = c ELSE 0

\* ord(c) of the ASCII characters the model uses, and -1 of any other character
Ord(c) ==
    IF IndexIn(Digits, c) > 0 THEN 47 + IndexIn(Digits, c)
    ELSE IF IndexIn(Upper, c) > 0 THEN 64 + IndexIn(Upper, c)
    ELSE IF IndexIn(Lower, c) > 0 THEN 96 + IndexIn(Lower, c)
    ELSE IF c = " " THEN 32
    ELSE IF c = "," THEN 44
    ELSE IF c = "_" THEN 95
    ELSE -1

\* str.encode("ascii"), and str.encode("utf-8") of ASCII text; ok is FALSE where
\* encode("ascii") raises UnicodeEncodeError
Encode(s) ==
    [ok |-> \A i \in 1..Len(s) : Ord(s[i]) >= 0,
     bytes |-> [i \in 1..Len(s) |-> IF Ord(s[i]) >= 0 THEN Ord(s[i]) ELSE 0]]

\* str(n) of n >= 0
RECURSIVE Decimal(_)
Decimal(n) == IF n < 10 THEN <<Digits[n + 1]>> ELSE Append(Decimal(n \div 10), Digits[(n % 10) + 1])

\* what an f-string makes of a JSON value
Format(v) ==
    CASE v.t = "str" -> v.s
      [] v.t = "int" -> Decimal(v.n)
      [] OTHER -> <<"N", "o", "n", "e">>

\* bytes.hex(): two lower-case digits a byte
Hex(b) ==
    [i \in 1..(2 * Len(b)) |->
        IF i % 2 = 1 THEN HexLower[(b[(i + 1) \div 2] \div 16) + 1]
        ELSE HexLower[(b[i \div 2] % 16) + 1]]

\* p ^ q of two bytes
RECURSIVE BitXor(_, _)
BitXor(p, q) ==
    IF p = 0 THEN q
    ELSE IF q = 0 THEN p
    ELSE 2 * BitXor(p \div 2, q \div 2) + ((p + q) % 2)

\* bytes(p ^ q for p, q in zip(a, b)): zip stops at the shorter operand
Min(a, b) == IF a <= b THEN a ELSE b
XorZip(a, b) == [i \in 1..Min(Len(a), Len(b)) |-> BitXor(a[i], b[i])]

\* the size of a SHA-256 digest, in bytes
DigestSize == 32

\* SHA-256 is not computed: a digest is DigestSize bytes that are a fixed
\* function of the message (its length and a position-weighted sum).
RECURSIVE WeightedSum(_, _, _)
WeightedSum(b, lo, hi) ==
    IF lo > hi THEN 0
    ELSE IF lo = hi THEN (lo * (b[lo] + 1)) % 65521
    ELSE LET mid == (lo + hi) \div 2
         IN  (WeightedSum(b, lo, mid) + WeightedSum(b, mid + 1, hi)) % 65521

sha256(msg) ==
    LET sum == WeightedSum(msg, 1, Len(msg))
    IN  [i \in 1..DigestSize |-> (sum + 7 * Len(msg) + 11 * i) % 256]

\* hmac.new(key, msg, sha256).digest(): a digest of the key and the message
HmacNew(key, msg) == sha256(<<Len(key) % 256>> \o key \o msg)

\* hashlib.pbkdf2_hmac("sha256", pw, salt, iterations, 32): one block of
\* PBKDF2, the XOR of the chain U1 = HMAC(pw, salt || 1), Uk = HMAC(pw, Uk-1)
RECURSIVE Pbkdf2Chain(_, _, _)
Pbkdf2Chain(pw, u, left) ==
    IF left = 0 THEN u
    ELSE XorZip(u, Pbkdf2Chain(pw, HmacNew(pw, u), left - 1))

pbkdf2_hmac(pw, salt, iterations) ==
    Pbkdf2Chain(pw, HmacNew(pw, salt \o <<0, 0, 0, 1>>), iterations - 1)

----------------------------------------------------------------------------
(* The requests *)

IndexPath == "/html/index.html"
NoncePath == "/api/system/user_login_nonce"
ProofPath == "/api/system/user_login_proof"

GetIndex == [method |-> "GET", path |-> IndexPath,
             csrf |-> EmptyDict, data |-> EmptyDict]

\* the "csrf" member of both POST bodies
CsrfOf(sec) == [k \in {"csrf_param", "csrf_token"} |-> sec[k]]

PostNonce(sec) ==
    [method |-> "POST", path |-> NoncePath,
     csrf |-> CsrfOf(sec),
     data |-> [k \in {"username", "firstnonce"} |-> sec[k]]]

\* the exception lines 116-143 raise on a secret store, or "none"
ProofError(sec) ==
    IF "salt" \notin DOMAIN sec THEN "KeyError"
    ELSE IF sec["salt"].t # "str" THEN "TypeError"
    ELSE IF ~FromHex(sec["salt"].s).ok THEN "ValueError"
    ELSE IF "iterations" \notin DOMAIN sec THEN "KeyError"
    ELSE IF sec["iterations"].t # "int" THEN "TypeError"
    ELSE IF sec["iterations"].n < 1 THEN "ValueError"
    ELSE IF "firstnonce" \notin DOMAIN sec \/ "servernonce" \notin DOMAIN sec THEN "KeyError"
    ELSE IF ~Encode(Format(sec["firstnonce"])).ok \/ ~Encode(Format(sec["servernonce"])).ok
    THEN "UnicodeEncodeError"
    ELSE IF "csrf_param" \notin DOMAIN sec \/ "csrf_token" \notin DOMAIN sec THEN "KeyError"
    ELSE "none"

\* authmsg: firstnonce, servernonce and servernonce again
AuthMsg(sec) ==
    Format(sec["firstnonce"]) \o <<",">> \o Format(sec["servernonce"])
        \o <<",">> \o Format(sec["servernonce"])

ClientKey(pw, sec) ==
    HmacNew(Encode(<<"C", "l", "i", "e", "n", "t", " ", "K", "e", "y">>).bytes,
            pbkdf2_hmac(Encode(pw).bytes, FromHex(sec["salt"].s).bytes, sec["iterations"].n))

\* ClientSig with a digest of 20 bytes (SHA-1) for the signature
ClientSigShortDigest(pw, sec) ==
    SubSeq(HmacNew(Encode(AuthMsg(sec)).bytes, sha256(ClientKey(pw, sec))), 1, 20)

ClientSig(pw, sec) == HmacNew(Encode(AuthMsg(sec)).bytes, sha256(ClientKey(pw, sec)))

ClientProof(pw, sec) == Hex(XorZip(ClientKey(pw, sec), ClientSig(pw, sec)))

PostProof(pw, sec) ==
    [method |-> "POST", path |-> ProofPath,
     csrf |-> CsrfOf(sec),
     data |-> [k \in {"clientproof", "finalnonce"} |->
                 IF k = "clientproof" THEN JStr(ClientProof(pw, sec)) ELSE sec["servernonce"]]]

\* NoError with the errcode test left out
NoErrorErrOnly(d) == ~Truthy(Get(d, "err"))

\* `not d.get("err") and not d.get("errcode")`
NoError(d) == ~Truthy(Get(d, "err")) /\ ~Truthy(Get(d, "errcode"))

----------------------------------------------------------------------------
(* The responses of the router *)

CsrfResponses ==
    {[stage |-> "csrf", status |-> st, body |-> b] : st \in Statuses, b \in Pages}

\* a JSON response: the body is the JSON object d, or res.json() raises
JsonRes(stage, status, ok, d) ==
    [stage |-> stage, status |-> status, json_ok |-> ok, d |-> d]

NonceResponses ==
    {JsonRes("nonce", HTTP_OK, TRUE, d) : d \in NonceJson}
        \cup {JsonRes("nonce", st, TRUE, d) : st \in Statuses \ {HTTP_OK}, d \in RefusedJson}
        \cup {JsonRes("nonce", st, FALSE, EmptyDict) : st \in Statuses}

ProofResponses ==
    {JsonRes("proof", st, TRUE, d) : st \in Statuses, d \in ProofJson}
        \cup {JsonRes("proof", st, FALSE, EmptyDict) : st \in Statuses}

----------------------------------------------------------------------------
(* The state after HWRouter(password, username): __async_ctxmgr is None at *)
(* construction, so the early return of line 26 is never taken.            *)

Init ==
    /\ \E pw \in Passwords, un \in Usernames :
          /\ password = pw
          /\ secrets = [k \in {"username", "password"} |->
                          IF k = "username"
                          THEN JStr(IF Len(un) = 0 THEN DefaultUsername ELSE un)
                          ELSE JStr(pw)]
    /\ async_ctxmgr = "None"
    /\ session = "created"
    /\ logged_in = FALSE
    /\ pc = "idle"
    /\ exc = "none"
    /\ ret = [csrf |-> "none", nonce |-> "none", proof |-> "none"]
    /\ requests = <<>>
    /\ responses = <<>>
    /\ enters = 0
    /\ exits = 0
    /\ closes = 0
    /\ before = secrets

----------------------------------------------------------------------------
(* __aenter__ and __aexit__ *)

\* Aenter with the guard `if self.__async_ctxmgr:`: a call after __aexit__
\* (the flag is False) starts the handshake again
AenterUnlessEntered ==
    /\ enters' = enters + 1
    /\ IF async_ctxmgr = "True"
       THEN UNCHANGED <<async_ctxmgr, session, pc>>
       ELSE /\ async_ctxmgr' = "True"
            /\ session' = "entered"
            /\ pc' = "csrf"
    /\ UNCHANGED <<secrets, password, logged_in, exc, ret, requests, responses, exits, closes, before>>

\* lines 36-40: only the first call starts the handshake
Aenter ==
    /\ enters' = enters + 1
    /\ IF async_ctxmgr # "None"
       THEN UNCHANGED <<async_ctxmgr, session, pc>>
       ELSE /\ async_ctxmgr' = "True"
            /\ session' = "entered"
            /\ pc' = "csrf"
    /\ UNCHANGED <<secrets, password, logged_in, exc, ret, requests, responses, exits, closes, before>>

\* Aexit without the guard of line 49: every call closes the session
AexitUnguarded ==
    /\ exits' = exits + 1
    /\ session' = "closed"
    /\ closes' = closes + 1
    /\ async_ctxmgr' = "False"
    /\ UNCHANGED <<secrets, password, logged_in, pc, exc, ret, requests, responses, enters,
                   before>>

\* lines 48-52
Aexit ==
    /\ exits' = exits + 1
    /\ IF async_ctxmgr # "True"
       THEN UNCHANGED <<async_ctxmgr, session, closes>>
       ELSE /\ session' = "closed"
            /\ closes' = closes + 1
            /\ async_ctxmgr' = "False"
    /\ UNCHANGED <<secrets, password, logged_in, pc, exc, ret, requests, responses, enters,
                   before>>

\* an exception leaves the stage and __aenter__: line 41 assigns nothing
Raise(stage, e) ==
    /\ pc' = "raised"
    /\ exc' = e
    /\ ret' = [ret EXCEPT ![stage] = "raise"]
    /\ UNCHANGED logged_in

\* Finish with the stages joined by an `and` that does not short-circuit:
\* a stage that returned False is followed by the next one all the same
FinishNoShortCircuit(stage, result) ==
    /\ pc' = CASE stage = "csrf" -> "nonce" [] stage = "nonce" -> "proof" [] OTHER -> "done"
    /\ ret' = [ret EXCEPT ![stage] = IF result THEN "True" ELSE "False"]
    /\ logged_in' = IF stage = "proof" THEN result ELSE logged_in
    /\ UNCHANGED exc

\* a stage returns False, or the last returns: line 41 assigns, line 46 returns
Finish(stage, result) ==
    /\ pc' = "done"
    /\ ret' = [ret EXCEPT ![stage] = IF result THEN "True" ELSE "False"]
    /\ logged_in' = result
    /\ UNCHANGED exc

\* a stage returns True and `and` goes on to the next one
Proceed(stage, next) ==
    /\ pc' = next
    /\ ret' = [ret EXCEPT ![stage] = "True"]
    /\ UNCHANGED <<logged_in, exc>>

----------------------------------------------------------------------------
(* The three stages *)

\* session.get / session.post up to the await: a closed session raises
Send(stage, req, waiting) ==
    IF session = "closed"
    THEN Raise(stage, "RuntimeError") /\ UNCHANGED requests
    ELSE /\ requests' = Append(requests, req)
         /\ pc' = waiting
         /\ UNCHANGED <<logged_in, exc, ret>>

\* line 77, up to the await
LoginDoCsrfSend ==
    /\ pc = "csrf"
    /\ Send("csrf", GetIndex, "csrf_wait")
    /\ UNCHANGED <<async_ctxmgr, session, secrets, password, responses, enters, exits, closes>>
    /\ before' = secrets

\* LoginDoCsrf that returns True on a match without storing the tokens
LoginDoCsrfStoresNothing(res) ==
    /\ UNCHANGED secrets
    /\ IF res.status = HTTP_OK
       THEN IF Search(res.body).found THEN Proceed("csrf", "nonce") ELSE Raise("csrf", "TypeError")
       ELSE Finish("csrf", FALSE)

\* lines 78-87 on the response res
LoginDoCsrf(res) ==
    LET match == Search(res.body) IN
    IF res.status = HTTP_OK
    THEN IF match.found
         THEN /\ secrets' = Update(secrets,
                               [k \in {"csrf_param", "csrf_token"} |->
                                  IF k = "csrf_param" THEN JStr(match.g1) ELSE JStr(match.g2)])
              /\ Proceed("csrf", "nonce")
         ELSE \* match is None: match[1] raises
              /\ Raise("csrf", "TypeError")
              /\ UNCHANGED secrets
    ELSE /\ Finish("csrf", FALSE)
         /\ UNCHANGED secrets

\* lines 77-87, from the response on
LoginDoCsrfRecv(answers) ==
    /\ pc = "csrf_wait"
    /\ session = "entered"
    /\ \E res \in answers :
          /\ responses' = Append(responses, res)
          /\ LoginDoCsrf(res)
    /\ UNCHANGED <<async_ctxmgr, session, password, requests, enters, exits, closes, before>>

\* lines 92-105, up to the await
LoginDoNonceSend ==
    /\ pc = "nonce"
    /\ \E u \in UuidHex :
          secrets' = Update(secrets, [k \in {"firstnonce"} |-> JStr(u \o u)])
    /\ IF {"csrf_param", "csrf_token", "username"} \subseteq DOMAIN secrets
       THEN Send("nonce", PostNonce(secrets'), "nonce_wait")
       ELSE \* lines 95-99: a missing key raises, after line 92 has written
            Raise("nonce", "KeyError") /\ UNCHANGED requests
    /\ UNCHANGED <<async_ctxmgr, session, password, responses, enters, exits, closes>>
    /\ before' = secrets

\* lines 106-111 on the response res
LoginDoNonce(res) ==
    IF res.status = HTTP_OK
    THEN IF ~res.json_ok
         THEN Raise("nonce", "JSONDecodeError") /\ UNCHANGED secrets
         ELSE IF NoError(res.d)
         THEN secrets' = Update(secrets, res.d) /\ Proceed("nonce", "proof")
         ELSE Finish("nonce", FALSE) /\ UNCHANGED secrets
    ELSE Finish("nonce", FALSE) /\ UNCHANGED secrets

\* lines 103-111, from the response on
LoginDoNonceRecv(answers) ==
    /\ pc = "nonce_wait"
    /\ session = "entered"
    /\ \E res \in answers :
          /\ responses' = Append(responses, res)
          /\ LoginDoNonce(res)
    /\ UNCHANGED <<async_ctxmgr, session, password, requests, enters, exits, closes, before>>

\* LoginDoProofSend that draws a nonce of its own for the proof
LoginDoProofSendFreshNonce ==
    /\ pc = "proof"
    /\ IF ProofError(secrets) # "none"
       THEN Raise("proof", ProofError(secrets)) /\ UNCHANGED requests
       ELSE \E u \in UuidHex :
               Send("proof",
                    PostProof(password, Update(secrets, [k \in {"firstnonce"} |-> JStr(u \o u)])),
                    "proof_wait")
    /\ UNCHANGED <<async_ctxmgr, session, secrets, password, responses, enters, exits, closes>>
    /\ before' = secrets

\* lines 116-146, up to the await
LoginDoProofSend ==
    /\ pc = "proof"
    /\ IF ProofError(secrets) # "none"
       THEN Raise("proof", ProofError(secrets)) /\ UNCHANGED requests
       ELSE Send("proof", PostProof(password, secrets), "proof_wait")
    /\ UNCHANGED <<async_ctxmgr, session, secrets, password, responses, enters, exits, closes>>
    /\ before' = secrets

\* LoginDoProof that takes an empty JSON object for a failure
LoginDoProofNeedsFields(res) ==
    IF res.status = HTTP_OK
    THEN IF ~res.json_ok
         THEN Raise("proof", "JSONDecodeError")
         ELSE Finish("proof", NoError(res.d) /\ DOMAIN res.d # {})
    ELSE Finish("proof", FALSE)

\* LoginDoProof without the test of the status
LoginDoProofAnyStatus(res) ==
    IF ~res.json_ok
    THEN Raise("proof", "JSONDecodeError")
    ELSE Finish("proof", NoError(res.d))

\* lines 147-151 on the response res
LoginDoProof(res) ==
    IF res.status = HTTP_OK
    THEN IF ~res.json_ok
         THEN Raise("proof", "JSONDecodeError")
         ELSE Finish("proof", NoError(res.d))
    ELSE Finish("proof", FALSE)

\* lines 144-151, from the response on
LoginDoProofRecv(answers) ==
    /\ pc = "proof_wait"
    /\ session = "entered"
    /\ \E res \in answers :
          /\ responses' = Append(responses, res)
          /\ LoginDoProof(res)
    /\ UNCHANGED <<async_ctxmgr, session, secrets, password, requests, enters, exits, closes, before>>

\* the stage whose request is awaited
Awaited == CASE pc = "csrf_wait" -> "csrf" [] pc = "nonce_wait" -> "nonce" [] OTHER -> "proof"

\* NetError that runs the stage again instead of raising
NetErrorRetries ==
    /\ pc \in {"csrf_wait", "nonce_wait", "proof_wait"}
    /\ pc' = Awaited
    /\ UNCHANGED <<async_ctxmgr, session, secrets, password, logged_in, exc, ret, requests,
                   responses, enters, exits, closes, before>>

\* the awaited request fails in the transport: the session raises
NetError ==
    /\ pc \in {"csrf_wait", "nonce_wait", "proof_wait"}
    /\ Raise(Awaited, "ClientError")
    /\ UNCHANGED <<async_ctxmgr, session, secrets, password, requests, responses,
                   enters, exits, closes, before>>

----------------------------------------------------------------------------
(* The instance used as main uses it (lines 156-163): `async with` calls  *)
(* __aenter__ once, and __aexit__ once when __aenter__ has returned.       *)

WithEnter == enters = 0 /\ Aenter

WithExit == pc = "done" /\ exits = 0 /\ Aexit

Next ==
    \/ WithEnter
    \/ WithExit
    \/ LoginDoCsrfSend
    \/ LoginDoCsrfRecv(CsrfResponses)
    \/ LoginDoNonceSend
    \/ LoginDoNonceRecv(NonceResponses)
    \/ LoginDoProofSend
    \/ LoginDoProofRecv(ProofResponses)
    \/ NetError

Spec == Init /\ [][Next]_vars

----------------------------------------------------------------------------
(* The instance under a free caller: __aenter__ and __aexit__ are called   *)
(* in any order and at any time, also while the handshake is awaiting.     *)
(* The router answers from a few responses of each kind.                   *)

GoodPage ==
    <<Marker("csrf_param"), Word(Rep("a", TokenLen)),
      Marker("csrf_token"), Word(Rep("b", TokenLen + 1))>>

GoodNonce ==
    ToDict([err |-> JInt(0), errcode |-> Absent, salt |-> JStr(<<"0", "a">>),
            iterations |-> JInt(2), servernonce |-> JStr(<<"s">>), firstnonce |-> Absent,
            password |-> Absent])

CallCsrfResponses ==
    {r \in CsrfResponses : r.body \in {GoodPage, SubSeq(GoodPage, 1, 2)}}

CallNonceResponses ==
    {r \in NonceResponses : r.json_ok /\ r.d \in {GoodNonce, EmptyDict}}

CallProofResponses ==
    {r \in ProofResponses : r.json_ok /\ DOMAIN r.d \subseteq {"err"}}

CallEnter == enters < MaxEnters /\ Aenter

CallExit == exits < MaxExits /\ Aexit

NextCalls ==
    \/ CallEnter
    \/ CallExit
    \/ LoginDoCsrfSend
    \/ LoginDoCsrfRecv(CallCsrfResponses)
    \/ LoginDoNonceSend
    \/ LoginDoNonceRecv(CallNonceResponses)
    \/ LoginDoProofSend
    \/ LoginDoProofRecv(CallProofResponses)
    \/ NetError

SpecCalls == Init /\ [][NextCalls]_vars

----------------------------------------------------------------------------
(* The handshake: what the claims speak of *)

SentTo(path) == \E i \in DOMAIN requests : requests[i].path = path
Posts == {i \in DOMAIN requests : requests[i].method = "POST"}

\* the responses of a stage that have arrived
Answers(stage) == {responses[i] : i \in {j \in DOMAIN responses : responses[j].stage = stage}}

\* a stage has begun to run
Started(stage) ==
    \/ ret[stage] # "none"
    \/ stage = "nonce" /\ pc = "nonce_wait"
    \/ stage = "proof" /\ pc = "proof_wait"

Failed(stage) == ret[stage] \in {"False", "raise"}

\* the page holds both tokens where the pattern wants them: csrf_param, a
\* run of 32, csrf_token, a run of 32, in this order
HasBothTokens(body) ==
    \E i \in DOMAIN body :
        /\ body[i].k = "csrf_param"
        /\ \E j \in (i + 1)..Len(body) :
              /\ IsWord32(body[j])
              /\ \E k \in (j + 1)..Len(body) :
                    /\ body[k].k = "csrf_token"
                    /\ \E l \in (k + 1)..Len(body) : IsWord32(body[l])

\* the page holds fewer than two runs of 32 word characters
OmitsToken(body) == Cardinality({i \in DOMAIN body : IsWord32(body[i])}) < 2

HasErrorField(d) == "err" \in DOMAIN d \/ "errcode" \in DOMAIN d

\* err or errcode is there and is neither 0 nor empty nor null
HasTruthyError(d) ==
    \/ "err" \in DOMAIN d /\ Truthy(d["err"])
    \/ "errcode" \in DOMAIN d /\ Truthy(d["errcode"])

\* C1: a stage runs only if the one before returned True: after a failed CSRF
\* stage no request goes to the nonce or the proof endpoint, after a failed
\* nonce stage none goes to the proof endpoint.
ShortCircuit ==
    /\ (Started("nonce") \/ SentTo(NoncePath)) => ret["csrf"] = "True"
    /\ (Started("proof") \/ SentTo(ProofPath)) => ret["nonce"] = "True"
    /\ Failed("csrf") => ~Started("nonce") /\ ~SentTo(NoncePath)
                         /\ ~Started("proof") /\ ~SentTo(ProofPath)
    /\ Failed("nonce") => ~Started("proof") /\ ~SentTo(ProofPath)

\* C1, its case: the nonce stage ran after the CSRF stage and returned False,
\* and __aenter__ returned with two requests made.
ShortCircuitWitness ==
    pc = "done" /\ ret["csrf"] = "True" /\ ret["nonce"] = "False" /\ Len(requests) = 2

\* C2 as claimed: a nonce response whose JSON has an err or errcode field, of
\* any value, makes login_do_nonce return False and the handshake end logged out.
NonceErrorFieldFails ==
    \A r \in Answers("nonce") :
        (r.json_ok /\ HasErrorField(r.d)) =>
            ret["nonce"] = "False" /\ pc = "done" /\ ~logged_in

\* C2 as amended: a nonce response whose JSON has an err or errcode field of
\* a truthy value makes login_do_nonce return False and the handshake end
\* logged out, also with the status 200.
NonceTruthyErrorFails ==
    \A r \in Answers("nonce") :
        (r.json_ok /\ HasTruthyError(r.d)) =>
            ret["nonce"] = "False" /\ pc = "done" /\ ~logged_in

\* C2, its case: status 200, errcode 1 and no err, and the stage has returned.
NonceTruthyErrorWitness ==
    \E r \in Answers("nonce") :
        /\ r.status = HTTP_OK /\ r.json_ok
        /\ "err" \notin DOMAIN r.d /\ HasTruthyError(r.d)
        /\ {"salt", "iterations", "servernonce"} \subseteq DOMAIN r.d
        /\ ret["nonce"] = "False"

\* C3 as claimed: login_do_csrf never raises on a response: it returns a
\* boolean, and False when the status is not 200 or the tokens are not found.
CsrfNeverRaises ==
    \A r \in Answers("csrf") :
        /\ ret["csrf"] \in {"True", "False"}
        /\ (r.status # HTTP_OK \/ ~HasBothTokens(r.body)) => ret["csrf"] = "False"

\* C4: a login page that omits one of the two tokens (that does not hold
\* both where the pattern wants them) leaves the handshake with no POST made
\* and logged_in false, whatever the status.
OmittedTokenNoPost ==
    \A r \in Answers("csrf") :
        ~HasBothTokens(r.body) => Posts = {} /\ ~logged_in

\* C4, its case: status 200, a page with csrf_param and one token only, and
\* the stage is over.
OmittedTokenWitness ==
    \E r \in Answers("csrf") :
        /\ r.status = HTTP_OK /\ OmitsToken(r.body)
        /\ \E i, j \in DOMAIN r.body : i < j /\ r.body[i].k = "csrf_param" /\ IsWord32(r.body[j])
        /\ pc \in {"done", "raised"}

\* C5 as claimed: login_do_proof does not begin to run while salt,
\* iterations, servernonce or firstnonce is missing from the secret store.
ProofNeedsSecrets ==
    Started("proof") =>
        {"salt", "iterations", "servernonce", "firstnonce"} \subseteq DOMAIN secrets

\* C6 as claimed: no step gives a field of the secret store that is set
\* another value.
WriteOnce ==
    [][\A k \in DOMAIN secrets : k \in DOMAIN secrets' /\ secrets'[k] = secrets[k]]_vars

\* C6 as amended: a field that is set keeps its value in every step, except
\* that the step which merges the nonce response gives the fields this
\* response names the values it names; no field is ever removed.
WriteOnceButMerge ==
    [][\A k \in DOMAIN secrets :
          /\ k \in DOMAIN secrets'
          /\ secrets'[k] # secrets[k] =>
                /\ pc = "nonce_wait" /\ pc' = "proof"
                /\ Len(responses') = Len(responses) + 1
                /\ LET r == responses'[Len(responses')]
                   IN  r.stage = "nonce" /\ k \in DOMAIN r.d /\ secrets'[k] = r.d[k]]_vars

\* C6, its case: the nonce response named firstnonce and was merged: the
\* store holds another firstnonce than the request carried.
WriteOnceWitness ==
    /\ ret["nonce"] = "True"
    /\ \E i \in DOMAIN requests :
          /\ requests[i].path = NoncePath
          /\ requests[i].data["firstnonce"] # secrets["firstnonce"]
    /\ secrets["password"] = JStr(password)

\* C7: the secret store fills in the order of the stages: firstnonce only
\* with csrf_param and csrf_token, and salt, iterations or servernonce only
\* with firstnonce, csrf_param and csrf_token.
StageOrder ==
    /\ "firstnonce" \in DOMAIN secrets => {"csrf_param", "csrf_token"} \subseteq DOMAIN secrets
    /\ {"salt", "iterations", "servernonce"} \cap DOMAIN secrets # {} =>
          {"firstnonce", "csrf_param", "csrf_token"} \subseteq DOMAIN secrets

\* C7, its case: the nonce stage has merged a response that names salt but
\* neither iterations nor servernonce.
StageOrderWitness ==
    /\ ret["nonce"] = "True"
    /\ "salt" \in DOMAIN secrets
    /\ "iterations" \notin DOMAIN secrets /\ "servernonce" \notin DOMAIN secrets

\* the nonce response of the successful scenario: salt a hexadecimal string,
\* iterations a positive integer, servernonce a string, no error field
WellFormedNonce(r) ==
    /\ r.status = HTTP_OK /\ r.json_ok /\ ~HasErrorField(r.d)
    /\ {"salt", "iterations", "servernonce"} \subseteq DOMAIN r.d
    /\ r.d["salt"].t = "str" /\ FromHex(r.d["salt"].s).ok
    /\ r.d["iterations"].t = "int" /\ r.d["iterations"].n >= 1
    /\ r.d["servernonce"].t = "str"

\* C8: when the login page came with 200 and both tokens, the nonce response
\* with 200, salt, iterations and servernonce and no error field, and the
\* proof response with 200 and an empty JSON object, the handshake is over
\* and logged_in is true.
HappyPathLogsIn ==
    ( /\ \E r \in Answers("csrf") : r.status = HTTP_OK /\ HasBothTokens(r.body)
      /\ \E r \in Answers("nonce") : WellFormedNonce(r)
      /\ \E r \in Answers("proof") : r.status = HTTP_OK /\ r.json_ok /\ r.d = EmptyDict )
    => pc = "done" /\ logged_in

\* C8, its case: the three responses of the scenario have arrived.
HappyPathWitness ==
    /\ \E r \in Answers("csrf") : r.status = HTTP_OK /\ HasBothTokens(r.body)
    /\ \E r \in Answers("nonce") : WellFormedNonce(r)
    /\ \E r \in Answers("proof") : r.status = HTTP_OK /\ r.json_ok /\ r.d = EmptyDict
    /\ Len(requests) = 3

AllStagesTrue == \A st \in {"csrf", "nonce", "proof"} : ret[st] = "True"

\* C9 as claimed: logged_in is true only when the three stages returned True,
\* the last on a proof response with status 200 and a JSON object without
\* err and without errcode; a failed stage leaves it false.
LoggedInOnlyWithoutErrorField ==
    /\ logged_in =>
          /\ AllStagesTrue
          /\ \E r \in Answers("proof") : r.status = HTTP_OK /\ r.json_ok /\ ~HasErrorField(r.d)
    /\ (\E st \in {"csrf", "nonce", "proof"} : Failed(st)) => ~logged_in

\* C9 as amended: logged_in is true only when the three stages returned True,
\* the last on a proof response with status 200 and a JSON object in which
\* err and errcode are absent or falsy; it is false at the start and in
\* every state in which a stage has failed.
LoggedInOnlyAfterProof ==
    /\ logged_in =>
          /\ AllStagesTrue
          /\ pc = "done"
          /\ \E r \in Answers("proof") : r.status = HTTP_OK /\ r.json_ok /\ ~HasTruthyError(r.d)
    /\ (\E st \in {"csrf", "nonce", "proof"} : Failed(st)) => ~logged_in
    /\ enters = 0 => ~logged_in

\* C9, its case: logged in on a proof response that carries err = 0.
LoggedInWitness ==
    /\ logged_in
    /\ \E r \in Answers("proof") : "err" \in DOMAIN r.d /\ ~HasTruthyError(r.d)

ExpectedRequests ==
    <<[method |-> "GET", path |-> IndexPath],
      [method |-> "POST", path |-> NoncePath],
      [method |-> "POST", path |-> ProofPath]>>

StageOf == <<"csrf", "nonce", "proof">>

\* C10: the requests of a handshake are a prefix of GET /html/index.html,
\* POST user_login_nonce, POST user_login_proof, each made once, and each
\* made only when the response to the one before has arrived.
RequestsInSequence ==
    /\ Len(requests) <= Len(ExpectedRequests)
    /\ \A i \in DOMAIN requests :
          /\ requests[i].method = ExpectedRequests[i].method
          /\ requests[i].path = ExpectedRequests[i].path
          /\ i > 1 => Len(responses) >= i - 1 /\ responses[i - 1].stage = StageOf[i - 1]
    /\ Len(responses) <= Len(requests)

\* C10, its case: all three requests are made and answered.
RequestsInSequenceWitness == Len(requests) = 3 /\ Len(responses) = 3

\* the proof requests made
ProofRequests == {requests[i] : i \in {j \in DOMAIN requests : requests[j].path = ProofPath}}

\* login_do_proof has computed the proof and posted it, and awaits the answer
ProofPosted == pc = "proof_wait" /\ ProofRequests # {}

\* the clientproof of a password and of the four values alone: a store that
\* holds nothing else
ProofFrom(pw, salt, iterations, firstnonce, servernonce) ==
    ClientProof(pw, [k \in {"salt", "iterations", "firstnonce", "servernonce"} |->
                       CASE k = "salt" -> salt
                         [] k = "iterations" -> iterations
                         [] k = "firstnonce" -> firstnonce
                         [] OTHER -> servernonce])

\* C11 as claimed: the clientproof and the finalnonce that login_do_proof
\* posts are what password, salt, iterations, firstnonce and servernonce of
\* the secret store determine: runs whose stores agree on the five send the
\* same.
ProofOfStoreFields ==
    ProofPosted =>
        \A q \in ProofRequests :
            /\ q.data["clientproof"] =
                  JStr(ProofFrom(secrets["password"].s, secrets["salt"], secrets["iterations"],
                                 secrets["firstnonce"], secrets["servernonce"]))
            /\ q.data["finalnonce"] = secrets["servernonce"]

\* C11 as amended: the clientproof and the finalnonce that login_do_proof
\* posts are what the password given to the constructor (self.__password)
\* and salt, iterations, firstnonce and servernonce of the secret store
\* determine; nothing else, and nothing random, enters.
ProofOfPasswordAndStore ==
    ProofPosted =>
        \A q \in ProofRequests :
            /\ q.data["clientproof"] =
                  JStr(ProofFrom(password, secrets["salt"], secrets["iterations"],
                                 secrets["firstnonce"], secrets["servernonce"]))
            /\ q.data["finalnonce"] = secrets["servernonce"]

\* C11, its case: a proof was posted from a store whose password and
\* firstnonce the nonce response had replaced.
ProofOfPasswordWitness ==
    /\ ProofPosted
    /\ secrets["password"] # JStr(password)
    /\ \E i \in DOMAIN requests :
          requests[i].path = NoncePath /\ requests[i].data["firstnonce"] # secrets["firstnonce"]

\* C12: whenever the proof is computed, clientkey and clientsig are 32 bytes
\* each, the XOR drops no byte, and the clientproof posted is 64 hexadecimal
\* characters.
ProofIs64Hex ==
    ProofPosted =>
        LET clientkey == ClientKey(password, secrets)
            clientsig == ClientSig(password, secrets)
        IN  /\ Len(clientkey) = 32
            /\ Len(clientsig) = 32
            /\ Len(XorZip(clientkey, clientsig)) = 32
            /\ \A q \in ProofRequests :
                   /\ q.data["clientproof"].t = "str"
                   /\ Len(q.data["clientproof"].s) = 64
                   /\ \A i \in 1..Len(q.data["clientproof"].s) :
                          HexValue(q.data["clientproof"].s[i]) >= 0

\* C12, its case: a proof was posted for the password of two characters.
ProofIs64HexWitness ==
    /\ ProofPosted
    /\ password = <<"q", "r">>
    /\ \E q \in ProofRequests : Len(q.data["clientproof"].s) = 64

\* the `async with` statement of main is over: __aenter__ raised (the body
\* and __aexit__ are skipped), or __aexit__ has returned
WithOver == pc = "raised" \/ (pc = "done" /\ exits > 0)

\* C13 as claimed: on every path out of `async with`, also when a stage fails
\* or raises inside __aenter__, the session opened in __aenter__ is closed.
SessionClosedOnEveryExit == WithOver /\ enters > 0 => session = "closed"

\* C14 as claimed: when login_do_csrf or login_do_nonce has returned False,
\* the secret store is the store that stage found when it began.
FailedStageKeepsStore ==
    \A st \in {"csrf", "nonce"} : ret[st] = "False" => secrets = before

\* each request of the handshake has been sent at most once
HandshakeOnce ==
    \A path \in {IndexPath, NoncePath, ProofPath} :
        Cardinality({i \in DOMAIN requests : requests[i].path = path}) <= 1

\* C15: over any sequence of __aenter__ and __aexit__ calls the handshake is
\* run at most once, started by the first __aenter__ only; every later
\* __aenter__ sends no request and leaves logged_in, the secret store and the
\* handshake where they are.
HandshakeAtMostOnce ==
    [][/\ HandshakeOnce'
       /\ (pc = "idle" /\ pc' # "idle") => (enters = 0 /\ enters' = 1)
       /\ (enters > 0 /\ enters' # enters) =>
              UNCHANGED <<requests, logged_in, secrets, pc, ret, session, async_ctxmgr>>]_vars

\* C15, its case: a second __aenter__ was called on an instance whose
\* handshake failed with an exception and whose session __aexit__ has closed.
HandshakeAtMostOnceWitness ==
    /\ enters = 2
    /\ closes = 1
    /\ pc = "raised"
    /\ Len(requests) >= 1

\* C16: a call of __aexit__ closes the session exactly when __aenter__ has
\* been called and no earlier __aexit__ has closed it, and otherwise changes
\* nothing; nothing else closes the session. So the session is closed at most
\* once and never before it was entered.
AexitClosesOnce ==
    [][/\ (exits' # exits) =>
              IF enters > 0 /\ closes = 0
              THEN closes' = 1 /\ session = "entered" /\ session' = "closed"
              ELSE UNCHANGED <<closes, session, async_ctxmgr>>
       /\ (closes' # closes \/ (session' = "closed" /\ session # "closed")) => exits' # exits
       /\ closes' <= 1]_vars

\* C16, its case: __aexit__ was called twice after __aenter__ and the session
\* was closed once.
AexitClosesOnceWitness ==
    /\ exits = 2
    /\ enters >= 1
    /\ closes = 1
    /\ session = "closed"

====
